---------------------------- MODULE Spec2Model ----------------------------
(***************************************************************************)
(* The single-table data-access service (DynamoDbService), the items       *)
(* handlers, the response envelope builder and the local emulation server  *)
(* of cdk-local-testing.                                                    *)
(*                                                                         *)
(* JavaScript strings that the code concatenates or matches by prefix are  *)
(* sequences of one-character strings; field names and opaque field values *)
(* are TLA+ strings; timestamps are clock readings.                        *)
(***************************************************************************)
EXTENDS Integers, Sequences, FiniteSets, TLC

VARIABLES
    table,      \* the DynamoDB table: key [PK, SK] -> stored item
    now,        \* the clock read by new Date()
    issued,     \* ids v4() has returned so far
    pc,         \* per request: where its service call stands
    frame,      \* per request: the locals of the call in flight
    last,       \* the most recently completed service call and its outcome
    tombs,      \* ids deleted and not returned by a later create
    controllers,\* the registry the decorators filled at module load
    cursor,     \* the operation the registration loop of server.ts is at
    routes,     \* server.ts: the routes seen so far
    app,        \* the handlers registered with express
    phase,      \* the local server: NONE, STARTING, LISTENING or ABORTED
    abortError, \* the value thrown out of server.ts
    setup,      \* where ServerSetupService.setup stands
    tableNames, \* the tables that exist on the DynamoDB server
    response    \* the last response the dispatcher wrote, and its number

svc == <<table, now, issued, pc, frame, last, tombs>>
boot == <<setup, tableNames>>
srv == <<controllers, cursor, routes, app, phase, abortError, boot>>
vars == <<svc, srv, response>>

-----------------------------------------------------------------------------
(* Bounds *)

MaxClock == 2
MaxPage == 2
\* the requests the local server is sent in one run
MaxRequests == 2

-----------------------------------------------------------------------------
(* Strings *)

\* the characters in use, in code-unit order (the order DynamoDB sorts by)
Chars == <<"#", "E", "I", "M", "T", "a", "b", "d", "e", "f", "i", "n", "u">>

Ord(c) == CHOOSE i \in 1..Len(Chars) : Chars[i] = c

ITEM == <<"I", "T", "E", "M">>
Hash == <<"#">>
UndefinedText == <<"u", "n", "d", "e", "f", "i", "n", "e", "d">>

\* `${pk}#${id}`
KeyOf(pk, id) == pk \o Hash \o id

\* begins_with(s, prefix)
BeginsWith(s, prefix) ==
    /\ Len(prefix) <= Len(s)
    /\ SubSeq(s, 1, Len(prefix)) = prefix

\* s sorts strictly before t
RECURSIVE StrLess(_, _)
StrLess(s, t) ==
    IF t = <<>> THEN FALSE
    ELSE IF s = <<>> THEN TRUE
    ELSE IF Head(s) = Head(t) THEN StrLess(Tail(s), Tail(t))
    ELSE Ord(Head(s)) < Ord(Head(t))

-----------------------------------------------------------------------------
(* Values *)

Procs == {1, 2}
SeqProcs == {1}

IdPool == {<<"a">>, <<"b">>}

\* JavaScript undefined, the outcome kinds of a call
Undefined == [kind |-> "undefined"]
Value(v) == [kind |-> "value", val |-> v]
Thrown(v) == [kind |-> "throw", val |-> v]

\* an object with the fields of r for which keep holds
Restrict(r, keep) == [f \in (DOMAIN r) \cap keep |-> r[f]]

\* r with field f set to v
Assign(r, f, v) == [g \in (DOMAIN r) \cup {f} |-> IF g = f THEN v ELSE r[g]]

\* `${resource.id}`: a missing id is rendered as the text undefined
IdText(r) == IF "id" \in DOMAIN r THEN r.id ELSE UndefinedText

-----------------------------------------------------------------------------
(* JavaScript values as the handlers and the dispatcher see them *)

JsUndefined == [type |-> "undefined"]
JsNull == [type |-> "null"]
JsObject(v) == [type |-> "object", val |-> v]
JsNumber(n) == [type |-> "number", num |-> n]
\* a string that is not the serialization of anything
JsText(t) == [type |-> "string", text |-> [plain |-> t]]
JsError(name, message) == [type |-> "Error", name |-> name, message |-> message]

\* the literal update throws
Literal404 == JsText("404")

\* the texts in use that JSON.parse reads as a number
NumberTexts == {"404"}
NumberOf(t) == IF t = "404" THEN 404 ELSE 0

\* JSON.stringify: undefined stays undefined, anything else becomes the
\* string that encodes it
JSONstringify(v) ==
    IF v.type = "undefined" THEN JsUndefined
    ELSE [type |-> "string", text |-> [json |-> v]]

\* JSON.parse: the encoded value, or a SyntaxError
JSONparse(s) ==
    IF s.type # "string" THEN Thrown(JsError("SyntaxError", "not valid JSON"))
    ELSE IF "json" \in DOMAIN s.text THEN Value(s.text.json)
    ELSE IF s.text.plain \in NumberTexts THEN Value(JsNumber(NumberOf(s.text.plain)))
    ELSE Thrown(JsError("SyntaxError", "not valid JSON"))

\* e.message
messageOf(e) == IF e.type = "Error" THEN JsText(e.message) ELSE JsUndefined

\* v || fallback
OrElse(v, fallback) ==
    IF \/ v.type = "undefined"
       \/ v.type = "null"
       \/ v.type = "number" /\ v.num = 0
       \/ v.type = "string" /\ v.text = [plain |-> ""]
    THEN fallback ELSE v

-----------------------------------------------------------------------------
(* Payloads *)

NoFields == [f \in {} |-> 0]

\* new-entity payloads
NewItems ==
    { [name |-> "A"],
      [name |-> "B", description |-> "D"] }

\* the payloads create is called with: a new entity, and one carrying
\* fields the server assigns
CreatePayloads ==
    { [name |-> "B", description |-> "D"] } \cup
    { [name |-> "B", id |-> <<"b">>, createdOn |-> 0, lastModifiedOn |-> 0,
       PK |-> ITEM, SK |-> Hash] }

\* bodies of an update: partial entities, with and without an id
UpdatePayloads ==
    { [id |-> <<"a">>, name |-> "B"],
      [id |-> <<"a">>, description |-> "D"],
      [id |-> <<"b">>, name |-> "A", createdOn |-> 0, lastModifiedOn |-> 0,
       PK |-> ITEM, SK |-> Hash],
      [name |-> "B"] }

\* relation records, written with both key components given by the caller
LinkPayloads == { [id |-> <<"b">>] }
LinkPKs == { ITEM }
LinkSKs == { ITEM }

\* the pk and sk arguments of the entity operations
PkArgs == { ITEM }
SkArgs == { ITEM }

\* the begins_with prefix passed to list: the one the list handler passes
ListPrefixes == { ITEM }

-----------------------------------------------------------------------------
(* The store *)

\* process.env.TABLE_NAME
TABLE_NAME == "TABLE_NAME"

\* the table the commands name exists
TableExists == TABLE_NAME \in tableNames

Key(pkText, skText) == [PK |-> pkText, SK |-> skText]

\* a write that leaves the written item alone in the table
Put_truncating(tbl, item) ==
    LET k == Key(item.PK, item.SK)
    IN [j \in {k} |-> item]

\* PutCommand: the item replaces whatever is stored under its key
Put(tbl, item) ==
    LET k == Key(item.PK, item.SK)
    IN [j \in (DOMAIN tbl) \cup {k} |-> IF j = k THEN item ELSE tbl[j]]

\* the keys relation records are written under
LinkKeys == { Key(pk, sk) : pk \in LinkPKs, sk \in LinkSKs }

\* GetCommand
GetItem(tbl, k) == IF k \in DOMAIN tbl THEN Value(tbl[k]) ELSE Undefined

\* a store that keeps the items it was asked to delete
DeleteItem_kept(tbl, k) == tbl

\* the table after a DeleteCommand on key k
DeleteItem(tbl, k) == [j \in (DOMAIN tbl) \ {k} |-> tbl[j]]

\* a DeleteCommand that carries the condition attribute_exists(PK)
sendDelete_conditional(tbl, k) ==
    IF k \in DOMAIN tbl
    THEN [table |-> DeleteItem(tbl, k), error |-> Undefined]
    ELSE [table |-> tbl, error |-> Thrown("ConditionalCheckFailedException")]

\* client.send(DeleteCommand): no condition, so no error on a missing key
sendDelete(tbl, k) == [table |-> DeleteItem(tbl, k), error |-> Undefined]

\* the keys of a set in index order (SK fixed, PK ascending)
RECURSIVE SortKeys(_)
SortKeys(ks) ==
    IF ks = {} THEN <<>>
    ELSE LET m == CHOOSE k \in ks : \A j \in ks \ {k} : StrLess(k.PK, j.PK)
         IN <<m>> \o SortKeys(ks \ {m})

\* the keys the key condition SK = :sk and begins_with(PK, :pk) selects,
\* after the exclusive start key
Matching(tbl, sk, pk, start) ==
    { k \in DOMAIN tbl :
        /\ k.SK = sk
        /\ BeginsWith(k.PK, pk)
        /\ start.kind = "value" => StrLess(start.val.PK, k.PK) }

\* QueryCommand on SK-PK-index: one page of at most limit items, with a
\* LastEvaluatedKey when the page stopped at the limit
Query(tbl, sk, pk, start, limit) ==
    LET ks == SortKeys(Matching(tbl, sk, pk, start))
        n == IF Len(ks) < limit THEN Len(ks) ELSE limit
    IN [Items |-> [i \in 1..n |-> tbl[ks[i]]],
        LastEvaluatedKey |-> IF n = limit THEN Value(ks[n]) ELSE Undefined]

-----------------------------------------------------------------------------
(* DynamoDbService, the pure part *)

\* a destructuring that names SK alone
removeKeys_onlySK(items) ==
    [i \in 1..Len(items) |-> Restrict(items[i], (DOMAIN items[i]) \ {"SK"})]

\* const { SK, PK, ...otherFields } = item
removeKeys(items) ==
    [i \in 1..Len(items) |-> Restrict(items[i], (DOMAIN items[i]) \ {"SK", "PK"})]

\* a write that leaves lastModifiedOn as it came
putItem_unstamped(resource, t) == resource

\* putItem, up to its await: lastModifiedOn is stamped with the reading t of
\* the clock; the result is the Item of the PutCommand it sends
putItem(resource, t) == Assign(resource, "lastModifiedOn", t)

\* create, up to the write: id, createdOn, PK and SK are assigned
createResource(resource, id, t, pk, sk) ==
    Assign(Assign(Assign(Assign(resource, "id", id), "createdOn", t),
                  "PK", KeyOf(pk, id)), "SK", sk)

\* createLink, up to the write
linkResource(resource, t, pk, sk) ==
    Assign(Assign(Assign(resource, "createdOn", t), "PK", pk), "SK", sk)

\* get: the stored item without its keys, or undefined
getResult(tbl, id, pk, sk) ==
    LET found == GetItem(tbl, Key(KeyOf(pk, id), sk))
    IN IF found.kind = "undefined" THEN Undefined
       ELSE Value(removeKeys(<<found.val>>)[1])

\* an update that keeps the PK and SK its payload came with
updateResource_trusting(resource, pk, sk) ==
    LET withPK == IF "PK" \in DOMAIN resource THEN resource
                  ELSE Assign(resource, "PK", KeyOf(pk, IdText(resource)))
    IN IF "SK" \in DOMAIN withPK THEN withPK ELSE Assign(withPK, "SK", sk)

\* update, its first two lines
updateResource(resource, pk, sk) ==
    Assign(Assign(resource, "PK", KeyOf(pk, IdText(resource))), "SK", sk)

\* the fields update copies from the resource onto the existing item
mergedFields(resource) == (DOMAIN resource) \ {"createdOn", "id"}

\* an update that replaces the existing item by the incoming one
merge_replace(existingItem, resource) ==
    [f \in {"id", "createdOn"} \cup mergedFields(resource) |->
        IF f \in mergedFields(resource) THEN resource[f] ELSE existingItem[f]]

\* update, its merge loop
merge(existingItem, resource) ==
    [f \in (DOMAIN existingItem) \cup mergedFields(resource) |->
        IF f \in mergedFields(resource) THEN resource[f] ELSE existingItem[f]]

-----------------------------------------------------------------------------
(* Response Envelope Builder *)

AllowCors == [mode |-> "ALLOW"]
NoHeaders == [mode |-> "undefined"]
HeaderMap(h) == [mode |-> "map", map |-> h]

CorsHeaders ==
    ("Access-Control-Allow-Headers" :> "*") @@
    ("Access-Control-Allow-Origin" :> "*") @@
    ("Access-Control-Allow-Methods" :> "*")

\* a builder that serializes whatever body it is given, strings included
buildResponseBody_reencoding(status, body, headers) ==
    [statusCode |-> status,
     headers |-> IF headers.mode = "ALLOW" THEN CorsHeaders
                 ELSE IF headers.mode = "map" THEN headers.map
                 ELSE NoFields,
     body |-> JSONstringify(body)]

buildResponseBody(status, body, headers) ==
    [statusCode |-> status,
     headers |-> IF headers.mode = "ALLOW" THEN CorsHeaders
                 ELSE IF headers.mode = "map" THEN headers.map
                 ELSE NoFields,
     body |-> IF body.type = "string" THEN body ELSE JSONstringify(body)]

-----------------------------------------------------------------------------
(* The items handlers *)

\* what a handler returns for the outcome of its service call: the success
\* envelope of its controller, or its catch block's envelope
handlerResult(op, outcome) ==
    IF outcome.kind = "throw"
    THEN buildResponseBody(500, messageOf(outcome.val), AllowCors)
    ELSE IF op = "create"
    THEN buildResponseBody(201, JsObject([id |-> outcome.val]), AllowCors)
    ELSE IF op \in {"update", "delete"}
    THEN buildResponseBody(204, JsUndefined, AllowCors)
    ELSE IF op = "get" /\ outcome.kind = "undefined"
    THEN buildResponseBody(200, JsUndefined, AllowCors)
    ELSE buildResponseBody(200, JsObject(outcome.val), AllowCors)

-----------------------------------------------------------------------------
(* The dispatcher: the route callback of server.ts *)

\* req.body = JSON.stringify(req.body) when it is an object
normalizeBody(body) == IF body.type = "object" THEN JSONstringify(body) ELSE body

\* what the callback writes for the result the handler returned
dispatch(result) ==
    LET parsed == IF result.body.type = "string" THEN JSONparse(result.body)
                  ELSE Value(result.body)
    IN IF parsed.kind = "throw"
       THEN [status |-> 500, body |-> JsObject([error |-> messageOf(parsed.val)])]
       ELSE [status |-> IF "statusCode" \notin DOMAIN result THEN 200
                        ELSE IF result.statusCode = 0 THEN 200
                        ELSE result.statusCode,
             body |-> OrElse(parsed.val, JsObject(NoFields))]

\* the catch block of the callback, for a value the handler rejected with:
\* reading the message of null or undefined throws inside the catch block
catchAll(e) ==
    IF e.type \in {"null", "undefined"}
    THEN Thrown(JsError("TypeError", "Cannot read properties of " \o e.type))
    ELSE Value([status |-> 500, body |-> JsObject([error |-> messageOf(e)])])

NoResponse == [kind |-> "none", number |-> 0]

\* how a service call was made: by a caller of the service, or by the
\* handler that a request was dispatched to
Direct == [kind |-> "direct"]
Http(h, id) ==
    [kind |-> "http", method |-> h.method, path |-> h.path,
     controller |-> h.controller, id |-> id]

\* the response to the request via, written when its handler got outcome
Written(via, op, outcome) ==
    LET sent == dispatch(handlerResult(op, outcome))
    IN [kind |-> "sent", number |-> response.number + 1,
        method |-> via.method, path |-> via.path, id |-> via.id,
        op |-> op, outcome |-> outcome, result |-> handlerResult(op, outcome),
        status |-> sent.status, body |-> sent.body]

-----------------------------------------------------------------------------
(* Bookkeeping of calls *)

Idle == [op |-> "none"]

\* the record of a completed call
Done(op, resource, id, pk, sk, result, before, pages) ==
    [op |-> op, resource |-> resource, id |-> id, pk |-> pk, sk |-> sk,
     result |-> result, before |-> before, pages |-> pages, again |-> FALSE,
     at |-> now, stamped |-> now]

\* the record of a completed call that wrote an item it had stamped at t
Stamped(call, t) == [call EXCEPT !.stamped = t]

\* call is a delete that repeats the call completed just before it: same
\* operation, same arguments
Repeats(call) ==
    /\ call.op = "delete"
    /\ last.op = call.op
    /\ last.resource = call.resource
    /\ last.id = call.id
    /\ last.pk = call.pk
    /\ last.sk = call.sk

\* a call completes and becomes the last call; made by a handler, its
\* outcome is answered
Complete(via, call) ==
    /\ last' = [call EXCEPT !.again = Repeats(call)]
    /\ response' = IF via.kind = "http" THEN Written(via, call.op, call.result)
                   ELSE response

InitService ==
    /\ table = [k \in {} |-> NoFields]
    /\ now = 1
    /\ issued = {}
    /\ pc = [p \in Procs |-> "idle"]
    /\ frame = [p \in Procs |-> Idle]
    /\ last = Idle
    /\ tombs = {}
    /\ response = NoResponse

\* no ServerSetupService is configured
NoSetup == [at |-> "NONE"]

\* the service used on its own: no local server
Init ==
    /\ InitService
    /\ setup = NoSetup
    /\ tableNames = {TABLE_NAME}
    /\ controllers = <<>>
    /\ cursor = 1
    /\ routes = <<>>
    /\ app = <<>>
    /\ phase = "NONE"
    /\ abortError = Undefined

-----------------------------------------------------------------------------
(* DynamoDbService, one action per await *)

\* time passes
Tick ==
    /\ now < MaxClock
    /\ now' = now + 1
    /\ UNCHANGED <<table, issued, pc, frame, last, tombs, srv, response>>

\* v4(): an id not handed out before
v4 == IdPool \ issued

\* the locals of a call that awaits the answer to a command
Awaiting(op, via, payload, id, pk, sk, before) ==
    [op |-> op, via |-> via, payload |-> payload, id |-> id, pk |-> pk, sk |-> sk,
     before |-> before]

\* create up to its await: the id is drawn, the clock is read for createdOn
\* and, in putItem, once more for lastModifiedOn (time may have passed
\* between the two readings), and the PutCommand is sent
create(p, via, resource, pk, sk) ==
    /\ pc[p] = "idle"
    /\ \E id \in v4, t \in now..MaxClock :
        /\ issued' = issued \cup {id}
        /\ now' = t
        /\ pc' = [pc EXCEPT ![p] = "create_put"]
        /\ frame' = [frame EXCEPT ![p] =
              Awaiting("create", via, resource, id, pk, sk, table) @@
              [item |-> putItem(createResource(resource, id, now, pk, sk), t),
               stamped |-> t]]
    /\ UNCHANGED <<table, last, tombs, srv, response>>

\* the store serves the PutCommand of a create, which returns the id
createPut(p) ==
    /\ pc[p] = "create_put"
    /\ TableExists
    /\ LET f == frame[p]
       IN /\ table' = Put(table, f.item)
          /\ tombs' = { t \in tombs : t.id # f.id }
          /\ Complete(f.via, Stamped(Done("create", f.payload, f.id, f.pk, f.sk,
                                          Value(f.id), f.before, <<>>), f.stamped))
    /\ pc' = [pc EXCEPT ![p] = "idle"]
    /\ frame' = [frame EXCEPT ![p] = Idle]
    /\ UNCHANGED <<now, issued, srv>>

\* createLink up to its await: two readings of the clock, as in create
createLink(p, via, resource, pk, sk) ==
    /\ pc[p] = "idle"
    /\ \E t \in now..MaxClock :
        /\ now' = t
        /\ pc' = [pc EXCEPT ![p] = "createLink_put"]
        /\ frame' = [frame EXCEPT ![p] =
              Awaiting("createLink", via, resource, <<>>, pk, sk, table) @@
              [item |-> putItem(linkResource(resource, now, pk, sk), t),
               stamped |-> t]]
    /\ UNCHANGED <<table, issued, last, tombs, srv, response>>

\* the store serves the PutCommand of a createLink
createLinkPut(p) ==
    /\ pc[p] = "createLink_put"
    /\ TableExists
    /\ LET f == frame[p]
       IN /\ table' = Put(table, f.item)
          /\ tombs' = { t \in tombs : Key(KeyOf(t.pk, t.id), t.sk) # Key(f.pk, f.sk) }
          /\ Complete(f.via, Stamped(Done("createLink", f.payload, <<>>, f.pk, f.sk,
                                          Undefined, f.before, <<>>), f.stamped))
    /\ pc' = [pc EXCEPT ![p] = "idle"]
    /\ frame' = [frame EXCEPT ![p] = Idle]
    /\ UNCHANGED <<now, issued, srv>>

get(p, via, id, pk, sk) ==
    /\ pc[p] = "idle"
    /\ TableExists
    /\ Complete(via, Done("get", NoFields, id, pk, sk, getResult(table, id, pk, sk),
                          table, <<>>))
    /\ UNCHANGED <<table, now, issued, pc, frame, tombs, srv>>

\* update up to its first await: the keys are set, get sends the GetCommand
\* and the store serves it
updateGet(p, via, resource, pk, sk) ==
    /\ pc[p] = "idle"
    /\ TableExists
    /\ LET keyed == updateResource(resource, pk, sk)
       IN /\ pc' = [pc EXCEPT ![p] = "update_got"]
          /\ frame' = [frame EXCEPT ![p] =
                Awaiting("update", via, resource, IdText(keyed), pk, sk, table) @@
                [resource |-> keyed,
                 existingItem |-> getResult(table, IdText(keyed), pk, sk)]]
    /\ UNCHANGED <<table, now, issued, last, tombs, srv, response>>

\* an update without the existence check: a missing item is written anew
updateMerge_upsert(p) ==
    /\ pc[p] = "update_got"
    /\ LET f == frame[p]
       IN /\ pc' = [pc EXCEPT ![p] = "update_put"]
          /\ frame' = [frame EXCEPT ![p] =
                [item |-> putItem(merge(IF f.existingItem.kind = "undefined"
                                        THEN NoFields ELSE f.existingItem.val,
                                        f.resource), now),
                 stamped |-> now] @@ f]
          /\ UNCHANGED <<last, response>>
    /\ UNCHANGED <<table, now, issued, tombs, srv>>

\* update from the answer to its GetCommand to its second await: a missing
\* item ends the call with the thrown literal; on the item found the
\* resource is merged onto it, putItem stamps the result with the clock as
\* it is now and sends the PutCommand
updateMerge(p) ==
    /\ pc[p] = "update_got"
    /\ LET f == frame[p]
       IN IF f.existingItem.kind = "undefined"
          THEN /\ Complete(f.via, Done("update", f.payload, f.id, f.pk, f.sk,
                                       Thrown(Literal404), f.before, <<>>))
               /\ pc' = [pc EXCEPT ![p] = "idle"]
               /\ frame' = [frame EXCEPT ![p] = Idle]
          ELSE /\ pc' = [pc EXCEPT ![p] = "update_put"]
               /\ frame' = [frame EXCEPT ![p] =
                     [item |-> putItem(merge(f.existingItem.val, f.resource), now),
                      stamped |-> now] @@ f]
               /\ UNCHANGED <<last, response>>
    /\ UNCHANGED <<table, now, issued, tombs, srv>>

\* the store serves the PutCommand of an update, which returns
updatePut(p) ==
    /\ pc[p] = "update_put"
    /\ TableExists
    /\ LET f == frame[p]
       IN /\ table' = Put(table, f.item)
          /\ Complete(f.via, Stamped(Done("update", f.payload, f.id, f.pk, f.sk,
                                          Undefined, f.before, <<>>), f.stamped))
    /\ pc' = [pc EXCEPT ![p] = "idle"]
    /\ frame' = [frame EXCEPT ![p] = Idle]
    /\ UNCHANGED <<now, issued, tombs, srv>>

delete(p, via, id, pk, sk) ==
    /\ pc[p] = "idle"
    /\ TableExists
    /\ LET sent == sendDelete(table, Key(KeyOf(pk, id), sk))
       IN /\ table' = sent.table
          /\ tombs' = IF sent.error.kind = "throw" THEN tombs
                      ELSE tombs \cup {[id |-> id, pk |-> pk, sk |-> sk]}
          /\ Complete(via, Done("delete", NoFields, id, pk, sk, sent.error, table, <<>>))
    /\ UNCHANGED <<now, issued, pc, frame, srv>>

\* deleteWithFullKey: the DeleteCommand names the key as the caller gave it
deleteWithFullKey(p, via, pk, sk) ==
    /\ pc[p] = "idle"
    /\ TableExists
    /\ LET sent == sendDelete(table, Key(pk, sk))
       IN /\ table' = sent.table
          /\ Complete(via, Done("deleteWithFullKey", NoFields, <<>>, pk, sk, sent.error,
                                table, <<>>))
    /\ UNCHANGED <<now, issued, pc, frame, tombs, srv>>

\* the error a failing store rejects a command with
StoreError == JsError("ResourceNotFoundException", "Requested resource not found")

\* the client.send a get, update, delete or list begins with rejects:
\* nothing is written, and the call rejects with the store's error
sendRejects(p, via, op, id, pk, sk) ==
    /\ pc[p] = "idle"
    /\ Complete(via, Done(op, NoFields, id, pk, sk, Thrown(StoreError), table, <<>>))
    /\ UNCHANGED <<table, now, issued, pc, frame, tombs, srv>>

\* the client.send a call awaits rejects (the PutCommand of a create, a
\* createLink or an update, the QueryCommand of a further page): nothing is
\* written, and the call rejects with the store's error
awaitRejects(p) ==
    /\ pc[p] \in {"create_put", "createLink_put", "update_put", "list_next"}
    /\ LET f == frame[p]
       IN Complete(f.via, Done(f.op, f.payload, f.id, f.pk, f.sk, Thrown(StoreError),
                               f.before, <<>>))
    /\ pc' = [pc EXCEPT ![p] = "idle"]
    /\ frame' = [frame EXCEPT ![p] = Idle]
    /\ UNCHANGED <<table, now, issued, tombs, srv>>

\* list after a page has arrived: loop again or return
listContinue(p, via, sk, pk, items, results, pages, before) ==
    IF results.LastEvaluatedKey.kind = "value"
    THEN /\ pc' = [pc EXCEPT ![p] = "list_next"]
         /\ frame' = [frame EXCEPT ![p] =
               Awaiting("list", via, NoFields, <<>>, pk, sk, before) @@
               [items |-> items, ExclusiveStartKey |-> results.LastEvaluatedKey,
                pages |-> pages]]
         /\ UNCHANGED <<last, response>>
    ELSE /\ pc' = [pc EXCEPT ![p] = "idle"]
         /\ frame' = [frame EXCEPT ![p] = Idle]
         /\ Complete(via, Done("list", NoFields, <<>>, pk, sk, Value(removeKeys(items)),
                               before, pages))

\* list, the first page
listFirst(p, via, sk, pk) ==
    /\ pc[p] = "idle"
    /\ TableExists
    /\ \E limit \in 1..MaxPage :
        LET results == Query(table, sk, pk, Undefined, limit)
        IN listContinue(p, via, sk, pk, results.Items, results, <<results.Items>>, table)
    /\ UNCHANGED <<table, now, issued, tombs, srv>>

\* a loop that keeps the newest page only
pushPage_overwrite(items, results) == results.Items

\* the items after one more page: an empty page adds nothing
pushPage(items, results) ==
    IF Len(results.Items) > 0 THEN items \o results.Items ELSE items

\* list, a further page
listNext(p) ==
    /\ pc[p] = "list_next"
    /\ TableExists
    /\ \E limit \in 1..MaxPage :
        LET f == frame[p]
            results == Query(table, f.sk, f.pk, f.ExclusiveStartKey, limit)
        IN listContinue(p, f.via, f.sk, f.pk, pushPage(f.items, results), results,
                        Append(f.pages, results.Items), f.before)
    /\ UNCHANGED <<table, now, issued, tombs, srv>>

-----------------------------------------------------------------------------
(* The service called directly, one call at a time *)

Create == \E p \in SeqProcs, r \in CreatePayloads, pk \in PkArgs, sk \in SkArgs :
    create(p, Direct, r, pk, sk)

CreatePut == \E p \in SeqProcs : createPut(p)

CreateLink == \E p \in SeqProcs, r \in LinkPayloads, pk \in LinkPKs, sk \in LinkSKs :
    createLink(p, Direct, r, pk, sk)

CreateLinkPut == \E p \in SeqProcs : createLinkPut(p)

Get == \E p \in SeqProcs, id \in IdPool, pk \in PkArgs, sk \in SkArgs :
    get(p, Direct, id, pk, sk)

UpdateGet == \E p \in SeqProcs, r \in UpdatePayloads, pk \in PkArgs, sk \in SkArgs :
    updateGet(p, Direct, r, pk, sk)

UpdateMerge == \E p \in SeqProcs : updateMerge(p)

UpdatePut == \E p \in SeqProcs : updatePut(p)

Delete == \E p \in SeqProcs, id \in IdPool, pk \in PkArgs, sk \in SkArgs :
    delete(p, Direct, id, pk, sk)

\* the keys deleteWithFullKey is called with: that of a relation record and
\* that of an entity
FullKeys == LinkKeys \cup { Key(KeyOf(ITEM, <<"a">>), ITEM) }

DeleteWithFullKey == \E p \in SeqProcs, k \in FullKeys :
    deleteWithFullKey(p, Direct, k.PK, k.SK)

ListFirst == \E p \in SeqProcs, sk \in SkArgs, pk \in ListPrefixes :
    listFirst(p, Direct, sk, pk)

ListNext == \E p \in SeqProcs : listNext(p)

Next ==
    \/ Tick
    \/ Create
    \/ CreatePut
    \/ CreateLink
    \/ CreateLinkPut
    \/ Get
    \/ UpdateGet
    \/ UpdateMerge
    \/ UpdatePut
    \/ Delete
    \/ DeleteWithFullKey
    \/ ListFirst
    \/ ListNext

Spec == Init /\ [][Next]_vars

-----------------------------------------------------------------------------
(* The service called by concurrent requests: their calls interleave at the
   awaits *)

\* the bodies of concurrent updates: partial entities with disjoint fields
ConcurrentUpdates == { r \in UpdatePayloads : DOMAIN r \in {{"id", "name"}, {"id", "description"}} }

ConcurrentCreate == \E p \in Procs, r \in NewItems, pk \in PkArgs, sk \in SkArgs :
    create(p, Direct, r, pk, sk)

ConcurrentCreatePut == \E p \in Procs : createPut(p)

ConcurrentUpdateGet == \E p \in Procs, r \in ConcurrentUpdates, pk \in PkArgs, sk \in SkArgs :
    updateGet(p, Direct, r, pk, sk)

ConcurrentUpdateMerge == \E p \in Procs : updateMerge(p)

ConcurrentUpdatePut == \E p \in Procs : updatePut(p)

ConcurrentDelete == \E p \in Procs, id \in IdPool, pk \in PkArgs, sk \in SkArgs :
    delete(p, Direct, id, pk, sk)

NextConcurrent ==
    \/ Tick
    \/ ConcurrentCreate
    \/ ConcurrentCreatePut
    \/ ConcurrentUpdateGet
    \/ ConcurrentUpdateMerge
    \/ ConcurrentUpdatePut
    \/ ConcurrentDelete

SpecConcurrent == Init /\ [][NextConcurrent]_vars

-----------------------------------------------------------------------------
(* The route registry: what the decorators recorded *)

LowerCase == <<"a", "b", "c", "d", "e", "f", "g", "h", "i", "j", "k", "l", "m", "n", "o", "p", "q", "r", "s", "t", "u", "v", "w", "x", "y", "z">>
UpperCase == <<"A", "B", "C", "D", "E", "F", "G", "H", "I", "J", "K", "L", "M", "N", "O", "P", "Q", "R", "S", "T", "U", "V", "W", "X", "Y", "Z">>

Index(seq, c) == CHOOSE i \in 1..Len(seq) : seq[i] = c

\* String.prototype.toUpperCase and toLowerCase
toUpperCase(str) ==
    [i \in 1..Len(str) |->
        IF \E j \in 1..Len(LowerCase) : LowerCase[j] = str[i]
        THEN UpperCase[Index(LowerCase, str[i])] ELSE str[i]]

toLowerCase(str) ==
    [i \in 1..Len(str) |->
        IF \E j \in 1..Len(UpperCase) : UpperCase[j] = str[i]
        THEN LowerCase[Index(UpperCase, str[i])] ELSE str[i]]

\* the verbs as the decorators of testing/decorators.ts record them
VerbGet == <<"g", "e", "t">>
VerbPost == <<"p", "o", "s", "t">>
VerbPut == <<"p", "u", "t">>
VerbDelete == <<"d", "e", "l", "e", "t", "e">>

Items == <<"i", "t", "e", "m", "s">>
ColonId == <<":", "i", "d">>
Slash == <<"/">>

\* a handling operation with the metadata createRoute defined on it
Operation(methodName, method, route) ==
    [methodName |-> methodName, method |-> Value(method), route |-> Value(route)]

\* a method of a controller class that carries no decorator
Undecorated(methodName) ==
    [methodName |-> methodName, method |-> Undefined, route |-> Undefined]

\* a class the Controller decorator pushed onto controllers
ControllerClass(name, basePath, methods) ==
    [name |-> name, basePath |-> Value(basePath), methods |-> methods]

ItemsCreateController ==
    ControllerClass("ItemsCreateController", Items, <<Operation("handler", VerbPost, <<>>)>>)
ItemsUpdateController ==
    ControllerClass("ItemsUpdateController", Items, <<Operation("handler", VerbPut, ColonId)>>)
ItemsDeleteController ==
    ControllerClass("ItemsDeleteController", Items, <<Operation("handler", VerbDelete, ColonId)>>)
ItemsGetController ==
    ControllerClass("ItemsGetController", Items, <<Operation("handler", VerbGet, ColonId)>>)
ItemsListController ==
    ControllerClass("ItemsListController", Items, <<Operation("handler", VerbGet, <<>>)>>)

\* the handler units the repository ships
ShippedUnits ==
    { ItemsCreateController, ItemsUpdateController, ItemsDeleteController,
      ItemsGetController, ItemsListController }

\* the sequences that hold every element of S once
RECURSIVE Orders(_)
Orders(S) ==
    IF S = {} THEN {<<>>}
    ELSE UNION { { <<x>> \o rest : rest \in Orders(S \ {x}) } : x \in S }

\* the registries the shipped units make: globSync returns the handler files
\* in an order nothing sorts, and the decorators push the units in the order
\* the files are required
Shipped == Orders(ShippedUnits)

\* the service operation a controller's handler calls
HandlerOp(name) ==
    IF name = "ItemsCreateController" THEN "create"
    ELSE IF name = "ItemsUpdateController" THEN "update"
    ELSE IF name = "ItemsDeleteController" THEN "delete"
    ELSE IF name = "ItemsGetController" THEN "get"
    ELSE IF name = "ProbeController" THEN "probe"
    ELSE "list"

\* further handler units a project may add
ItemsSearchController ==
    ControllerClass("ItemsSearchController", Items,
        <<Undecorated("search"), Operation("handler", toUpperCase(VerbGet), <<>>)>>)
ItemByIdController ==
    ControllerClass("ItemByIdController", Items \o Slash \o ColonId,
        <<Operation("handler", VerbGet, <<>>)>>)

\* a list handler unit declared with @Controller('/items')
SlashItemsController ==
    ControllerClass("SlashItemsController", Slash \o Items,
        <<Operation("handler", VerbGet, <<>>)>>)

\* a handler unit whose operation returns the result, or rejects with the
\* value, that its caller chooses
ProbeController ==
    ControllerClass("ProbeController", <<"p", "r", "o", "b", "e">>,
        <<Operation("handler", VerbPost, <<>>)>>)

\* the registries of projects that add handler units of their own
Registries ==
    { <<ItemsListController, ItemsSearchController, ItemsGetController>>,
      <<ItemsCreateController, ItemsUpdateController, ItemsDeleteController,
        ItemsGetController, ItemsListController, ItemsSearchController>>,
      <<ItemsGetController, ItemsCreateController, ItemByIdController,
        ItemsDeleteController>>,
      <<ItemsListController, SlashItemsController>>,
      <<ItemsGetController, ProbeController>> }

\* controllers.forEach and methodNames.forEach, as one sequence
RECURSIVE Operations(_)
Operations(ctls) ==
    IF ctls = <<>> THEN <<>>
    ELSE [i \in 1..Len(Head(ctls).methods) |->
             [controller |-> Head(ctls).name, basePath |-> Head(ctls).basePath,
              methodName |-> Head(ctls).methods[i].methodName,
              method |-> Head(ctls).methods[i].method,
              route |-> Head(ctls).methods[i].route]]
         \o Operations(Tail(ctls))

-----------------------------------------------------------------------------
(* server.ts: route registration and listen *)

\* filter(Boolean) on metadata: undefined and the empty string are dropped
Truthy(x) == x.kind = "value" /\ x.val # <<>>

RECURSIVE Join(_, _)
Join(segs, sep) ==
    IF segs = <<>> THEN <<>>
    ELSE IF Len(segs) = 1 THEN Head(segs).val
    ELSE Head(segs).val \o sep \o Join(Tail(segs), sep)

\* `/${[base, route].filter(Boolean).join('/')}`
fullPath(base, route) == Slash \o Join(SelectSeq(<<base, route>>, Truthy), Slash)

\* `[${httpMethod.toUpperCase()}] ${fullPath}`
routeText(httpMethod, path) ==
    <<"[">> \o toUpperCase(httpMethod) \o <<"]", " ">> \o path

\* a check that finds nothing
isExistingRoute_never(seen, route) == FALSE

\* a check that compares the paths and leaves the verbs out
isExistingRoute_pathOnly(seen, route) ==
    LET pathOf(r) == SubSeq(r, (CHOOSE n \in 1..Len(r) : r[n] = " ") + 1, Len(r))
    IN \E i \in 1..Len(seen) : pathOf(seen[i]) = pathOf(route)

\* routes.includes(route)
isExistingRoute(seen, route) == \E i \in 1..Len(seen) : seen[i] = route

DuplicateRoute == <<"D", "u", "p", "l", "i", "c", "a", "t", "e", " ", "R", "o", "u", "t", "e", ":", " ">>

\* the string server.ts throws
duplicateError(route) == [type |-> "string", text |-> [chars |-> DuplicateRoute \o route]]

\* the method metadata, lower-cased, or undefined
httpMethodOf(op) ==
    IF op.method.kind = "value" THEN Value(toLowerCase(op.method.val)) ELSE Undefined

\* one turn of the inner forEach: the operation is skipped, registered, or
\* found to duplicate a route, which ends the process
registerOperation ==
    /\ phase = "STARTING"
    /\ cursor <= Len(Operations(controllers))
    /\ LET op == Operations(controllers)[cursor]
           httpMethod == httpMethodOf(op)
           path == fullPath(op.basePath, op.route)
       IN IF path # <<>> /\ httpMethod.kind = "value"
          THEN LET route == routeText(httpMethod.val, path)
               IN IF isExistingRoute(routes, route)
                  THEN /\ phase' = "ABORTED"
                       /\ abortError' = Thrown(duplicateError(route))
                       /\ UNCHANGED <<cursor, routes, app>>
                  ELSE /\ routes' = Append(routes, route)
                       /\ app' = Append(app,
                             [method |-> httpMethod.val, path |-> path,
                              controller |-> op.controller,
                              methodName |-> op.methodName])
                       /\ cursor' = cursor + 1
                       /\ UNCHANGED <<phase, abortError>>
          ELSE /\ cursor' = cursor + 1
               /\ UNCHANGED <<routes, app, phase, abortError>>
    /\ UNCHANGED <<controllers, boot, svc, response>>

\* app.listen, reached when the loops have ended: the server listens, and
\* the callback starts the setup, where one is configured
listen ==
    /\ phase = "STARTING"
    /\ cursor > Len(Operations(controllers))
    /\ phase' = "LISTENING"
    /\ setup' = IF setup.at = "PENDING" THEN [setup EXCEPT !.at = "LIST_TABLES"]
                ELSE setup
    /\ UNCHANGED <<controllers, cursor, routes, app, abortError, tableNames, svc,
                   response>>

-----------------------------------------------------------------------------
(* Requests to the local server *)

\* express.json(): the parsed bodies of the requests; for a request without
\* a body, the empty object (express 4) or undefined (express 5)
PostBodies == { JsObject([name |-> "A"]), JsObject(NoFields), JsUndefined }
PutBodies == { JsObject([id |-> <<"a">>, name |-> "B"]), JsObject([name |-> "B"]) }

\* the server is sent a further request
Accepting == phase = "LISTENING" /\ response.number < MaxRequests

\* the handlers express would call for a request: those registered, the
\* server listening
Serving(op) ==
    { i \in 1..Len(app) : Accepting /\ HandlerOp(app[i].controller) = op }

\* the handler's JSON.parse(request.body) threw: its catch block answers
parseFailed(p, via, op, thrown) ==
    /\ pc[p] = "idle"
    /\ response' = Written(via, op, thrown)
    /\ UNCHANGED <<svc, srv>>

HttpPost == \E p \in SeqProcs, i \in Serving("create"), body \in PostBodies :
    LET parsed == JSONparse(normalizeBody(body))
    IN IF parsed.kind = "throw"
       THEN parseFailed(p, Http(app[i], <<>>), "create", parsed)
       ELSE create(p, Http(app[i], <<>>), parsed.val.val, ITEM, ITEM)

HttpPut == \E p \in SeqProcs, i \in Serving("update"), id \in IdPool, body \in PutBodies :
    updateGet(p, Http(app[i], id), JSONparse(normalizeBody(body)).val.val, ITEM, ITEM)

HttpGet == \E p \in SeqProcs, i \in Serving("get"), id \in IdPool :
    get(p, Http(app[i], id), id, ITEM, ITEM)

HttpDelete == \E p \in SeqProcs, i \in Serving("delete"), id \in IdPool :
    delete(p, Http(app[i], id), id, ITEM, ITEM)

HttpList == \E p \in SeqProcs, i \in Serving("list") :
    listFirst(p, Http(app[i], <<>>), ITEM, ITEM)

\* the operations of DynamoDbService the items handlers call
ServiceOps == {"create", "update", "delete", "get", "list"}

\* a request whose handler finds the store failing at the command its call
\* begins with
HttpStoreFailure == \E p \in SeqProcs, i \in 1..Len(app), id \in IdPool \cup {<<>>} :
    /\ Accepting
    /\ HandlerOp(app[i].controller) \in ServiceOps \ {"create"}
    /\ (id = <<>>) <=> (HandlerOp(app[i].controller) = "list")
    /\ sendRejects(p, Http(app[i], id), HandlerOp(app[i].controller), id, ITEM, ITEM)

\* a request whose handler finds the store failing at the command its call
\* awaits
AwaitRejects == \E p \in SeqProcs : awaitRejects(p)

\* the arguments a handler passes to buildResponseBody
ProbeStatuses == {200, 404}
ProbeBodies ==
    { JsUndefined, JsObject([name |-> "A"]), JsNumber(0), JsText("A"),
      JSONstringify(JsObject([name |-> "A"])) }
ProbeHeaders == { AllowCors, NoHeaders, HeaderMap(("X-Trace" :> "1")) }

\* results a handler returns without a statusCode
BareResults ==
    { [body |-> JsUndefined], [body |-> JSONstringify(JsObject([name |-> "A"]))] }

\* the values a handler rejects with
Rejections == { JsError("Error", "boom"), Literal404, JsNull, JsUndefined }

\* the response the callback writes for the result a handler returned
Answered(via, call, result) ==
    LET sent == dispatch(result)
    IN [kind |-> "sent", number |-> response.number + 1,
        method |-> via.method, path |-> via.path, id |-> via.id,
        op |-> "probe", call |-> call, outcome |-> Value(result), result |-> result,
        status |-> sent.status, body |-> sent.body]

\* a request to a handler that returns an envelope it built
HttpEnvelope == \E p \in SeqProcs, i \in Serving("probe"), status \in ProbeStatuses,
                   body \in ProbeBodies, headers \in ProbeHeaders :
    /\ pc[p] = "idle"
    /\ response' = Answered(Http(app[i], <<>>),
                            [status |-> status, body |-> body, headers |-> headers],
                            buildResponseBody(status, body, headers))
    /\ UNCHANGED <<svc, srv>>

\* a request to a handler that returns a result of its own making
HttpBare == \E p \in SeqProcs, i \in Serving("probe"), result \in BareResults :
    /\ pc[p] = "idle"
    /\ response' = Answered(Http(app[i], <<>>), NoFields, result)
    /\ UNCHANGED <<svc, srv>>

\* a request to a handler that rejects: the catch block answers, or throws
\* in its turn, and the callback rejects. What becomes of that rejection is
\* express's doing, and the major installed is not pinned: express 4 drops
\* the promise, so no response is written and the runtime ends the process
\* or only warns; express 5 passes the error on, and its default error
\* handler answers with the status res.status(500) had set and a page that
\* shows the error's stack, message included, or, in production, the text of
\* the status
HttpReject == \E p \in SeqProcs, i \in Serving("probe"), e \in Rejections :
    LET via == Http(app[i], <<>>)
        caught == catchAll(e)
        written == [number |-> response.number + 1, method |-> via.method,
                    path |-> via.path, id |-> via.id, op |-> "probe",
                    outcome |-> Thrown(e)]
    IN /\ pc[p] = "idle"
       /\ IF caught.kind = "throw"
          THEN \/ /\ response' = [kind |-> "unanswered"] @@ written
                  /\ \E crashed \in BOOLEAN :
                        /\ phase' = IF crashed THEN "CRASHED" ELSE phase
                        /\ abortError' = IF crashed THEN caught ELSE abortError
               \/ /\ \E page \in { JsText(caught.val.message),
                                   JsText("Internal Server Error") } :
                        response' = [kind |-> "sent", status |-> 500, body |-> page]
                                    @@ written
                  /\ UNCHANGED <<phase, abortError>>
          ELSE /\ response' = [kind |-> "sent", status |-> caught.val.status,
                               body |-> caught.val.body] @@ written
               /\ UNCHANGED <<phase, abortError>>
       /\ UNCHANGED <<svc, controllers, cursor, routes, app, boot>>

\* the local server is started with the shipped units, loaded in any order,
\* or with the registry of a project that adds units of its own
InitServer ==
    /\ InitService
    /\ setup = NoSetup
    /\ tableNames = {TABLE_NAME}
    /\ controllers \in Shipped \cup Registries
    /\ cursor = 1
    /\ routes = <<>>
    /\ app = <<>>
    /\ phase = "STARTING"
    /\ abortError = Undefined

-----------------------------------------------------------------------------
(* The local server with ServerSetupService: setup runs in the callback of
   app.listen, one step per await *)

\* a column of a CSV row, as csv-parse read it: a text (a name, a
\* description), an identifier or key, or the text of a timestamp
CsvText(t) == [kind |-> "text", val |-> t]
CsvChars(cs) == [kind |-> "chars", val |-> cs]
CsvTime(t) == [kind |-> "time", val |-> t]

\* !record[key].length || record[key] === 'null'
Unwanted(cell) ==
    \/ cell.kind = "text" /\ cell.val \in {"", "null"}
    \/ cell.kind = "chars" /\ cell.val \in {<<>>, <<"n", "u", "l", "l">>}

\* the loop that deletes the unwanted columns of a row
withoutUnwanted(record) ==
    Restrict(record, { c \in DOMAIN record : ~Unwanted(record[c]) })

\* parseJsonPropertiesForCsvData: a column JSON.parse accepts becomes the
\* parsed value, any other stays as it is; the identifiers, keys and
\* timestamps in use are no JSON texts, and no column in use holds the text
\* of an object
parseJsonPropertiesForCsvData(record) ==
    [c \in DOMAIN record |->
        LET parsed == IF record[c].kind = "text" THEN JSONparse(JsText(record[c].val))
                      ELSE Thrown(JsError("SyntaxError", "not valid JSON"))
        IN IF parsed.kind = "value" THEN parsed.val.num ELSE record[c].val]

\* the store accepts an item that has both key attributes
HasKeys(item) == {"PK", "SK"} \subseteq DOMAIN item

\* import-data.csv: a file whose row has a column holding a number, an empty
\* column and a column holding null; and a file with a row whose SK is empty
SeedCsv ==
    << [PK |-> CsvChars(KeyOf(ITEM, <<"d">>)), SK |-> CsvChars(ITEM),
        id |-> CsvChars(<<"d">>), name |-> CsvText("404"),
        description |-> CsvText(""), owner |-> CsvText("null"),
        createdOn |-> CsvTime(0), lastModifiedOn |-> CsvTime(0)] >>
KeylessCsv ==
    << [PK |-> CsvChars(KeyOf(ITEM, <<"d">>)), SK |-> CsvChars(<<>>),
        id |-> CsvChars(<<"d">>), name |-> CsvText("A"),
        createdOn |-> CsvTime(0), lastModifiedOn |-> CsvTime(0)] >>

\* the records of import-data.json
JsonRecords ==
    << [PK |-> KeyOf(ITEM, <<"e">>), SK |-> ITEM, id |-> <<"e">>, name |-> "B",
        createdOn |-> 0, lastModifiedOn |-> 0] >>

\* what a setup step leaves alone
SetupFrame ==
    UNCHANGED <<now, issued, last, tombs, controllers, cursor, routes, app, response>>

\* the process ends on a rejection nobody handles: the call in flight never
\* completes, and the PutCommand it had sent is served by the store, or is
\* not
processEnds(error) ==
    /\ phase' = "CRASHED"
    /\ abortError' = error
    /\ pc' = [p \in Procs |-> "idle"]
    /\ frame' = [p \in Procs |-> Idle]
    /\ \E p \in SeqProcs, served \in BOOLEAN :
          table' = IF served /\ TableExists /\ "item" \in DOMAIN frame[p]
                   THEN Put(table, frame[p].item) ELSE table

\* setup: the table names arrive; with the table there, setup is over
listTables ==
    /\ setup.at = "LIST_TABLES"
    /\ setup' = [setup EXCEPT !.at = IF TableExists THEN "DONE" ELSE "CREATE_TABLE"]
    /\ UNCHANGED <<table, tableNames, phase, abortError, pc, frame>>
    /\ SetupFrame

createTable ==
    /\ setup.at = "CREATE_TABLE"
    /\ tableNames' = tableNames \cup {TABLE_NAME}
    /\ setup' = [setup EXCEPT !.at = "SOURCE_CSV", !.next = 1]
    /\ UNCHANGED <<table, phase, abortError, pc, frame>>
    /\ SetupFrame

\* one turn of the loop over the rows of the CSV file: the row is
\* normalised and its PutCommand is served; a row left without a key
\* attribute is rejected by the store, setup rejects, the callback of
\* app.listen rejects with it, and the runtime ends the process or only warns
sourceTableFromCsv ==
    /\ setup.at = "SOURCE_CSV"
    /\ LET item == parseJsonPropertiesForCsvData(withoutUnwanted(setup.csv[setup.next]))
       IN IF HasKeys(item)
          THEN /\ table' = Put(table, item)
               /\ setup' = IF setup.next < Len(setup.csv)
                           THEN [setup EXCEPT !.next = setup.next + 1]
                           ELSE [setup EXCEPT !.at = "SOURCE_JSON", !.next = 1]
               /\ UNCHANGED <<phase, abortError, pc, frame>>
          ELSE /\ setup' = [setup EXCEPT !.at = "REJECTED"]
               /\ \/ UNCHANGED <<table, phase, abortError, pc, frame>>
                  \/ processEnds(Thrown(JsError("ValidationException",
                                                "Missing the key")))
    /\ UNCHANGED tableNames
    /\ SetupFrame

\* one PutCommand of the loop over the JSON records
sourceTableFromJson ==
    /\ setup.at = "SOURCE_JSON"
    /\ table' = Put(table, JsonRecords[setup.next])
    /\ setup' = IF setup.next < Len(JsonRecords)
                THEN [setup EXCEPT !.next = setup.next + 1]
                ELSE [setup EXCEPT !.at = "DONE"]
    /\ UNCHANGED <<tableNames, phase, abortError, pc, frame>>
    /\ SetupFrame

\* the server of the repository, its handler files loaded in any order, is
\* started against a DynamoDB server that has the table, or has not; the
\* requests it gets while it starts are
\* POST /items, GET /items/:id and GET /items
InitSetup ==
    /\ InitService
    /\ setup \in { [at |-> "PENDING", next |-> 1, csv |-> file] : file \in {SeedCsv, KeylessCsv} }
    /\ tableNames \in { {}, {TABLE_NAME} }
    /\ controllers \in Shipped
    /\ cursor = 1
    /\ routes = <<>>
    /\ app = <<>>
    /\ phase = "STARTING"
    /\ abortError = Undefined

NextSetup ==
    \/ registerOperation
    \/ listen
    \/ listTables
    \/ createTable
    \/ sourceTableFromCsv
    \/ sourceTableFromJson
    \/ HttpPost
    \/ CreatePut
    \/ HttpGet
    \/ HttpList
    \/ ListNext
    \/ HttpStoreFailure
    \/ AwaitRejects

SpecSetup == InitSetup /\ [][NextSetup]_vars

NextServer ==
    \/ registerOperation
    \/ listen
    \/ Tick
    \/ HttpPost
    \/ CreatePut
    \/ HttpPut
    \/ UpdateMerge
    \/ UpdatePut
    \/ HttpGet
    \/ HttpDelete
    \/ HttpList
    \/ ListNext
    \/ HttpStoreFailure
    \/ AwaitRejects
    \/ HttpEnvelope
    \/ HttpBare
    \/ HttpReject

SpecServer == InitServer /\ [][NextServer]_vars

-----------------------------------------------------------------------------
(* The start-up of the local server, whatever order the handler files are
   loaded in, and the requests that write nothing to the store *)

InitStartup ==
    /\ InitService
    /\ setup = NoSetup
    /\ tableNames = {TABLE_NAME}
    /\ controllers \in Shipped \cup Registries
    /\ cursor = 1
    /\ routes = <<>>
    /\ app = <<>>
    /\ phase = "STARTING"
    /\ abortError = Undefined

NextStartup ==
    \/ registerOperation
    \/ listen
    \/ HttpGet
    \/ HttpStoreFailure
    \/ HttpEnvelope
    \/ HttpBare
    \/ HttpReject

SpecStartup == InitStartup /\ [][NextStartup]_vars

-----------------------------------------------------------------------------
(* Properties of the data-access service *)

\* the fields of INewItem
NewItemFields == {"name", "description"}

\* the key the last call addressed
LastKey == Key(KeyOf(last.pk, last.id), last.sk)

\* what get returns for the last call's id in the current store
GotNow == getResult(table, last.id, last.pk, last.sk)

\* what get returned for it when the last call began
GotBefore == getResult(last.before, last.id, last.pk, last.sk)

\* the last call is an update that found its record and wrote
UpdateDone ==
    /\ last.op = "update"
    /\ last.result.kind = "undefined"
    /\ "id" \in DOMAIN last.resource

\* C1: after create(e, t) returned id for a new-entity payload e, get(id, t)
\* returns e's fields with e's values plus id (the returned one), createdOn
\* and lastModifiedOn, and neither PK nor SK.
C1_RoundTrip ==
    (last.op = "create" /\ DOMAIN last.resource \subseteq NewItemFields) =>
        /\ GotNow.kind = "value"
        /\ DOMAIN GotNow.val =
              (DOMAIN last.resource) \cup {"id", "createdOn", "lastModifiedOn"}
        /\ \A f \in DOMAIN last.resource : GotNow.val[f] = last.resource[f]
        /\ GotNow.val.id = last.result.val
        /\ "PK" \notin DOMAIN GotNow.val
        /\ "SK" \notin DOMAIN GotNow.val

C1_Witness ==
    /\ last.op = "create"
    /\ last.resource = [name |-> "B", description |-> "D"]
    /\ Cardinality(DOMAIN table) >= 2

\* C2 as stated: after update(p) on a stored e with p.id = e.id, get(e.id) has
\* p's value for every field of p other than id and createdOn, e's value for
\* every field of e absent from p, and e's id and createdOn.
C2_Original ==
    (UpdateDone /\ GotBefore.val.id = last.resource.id) =>
        /\ GotNow.kind = "value"
        /\ \A f \in (DOMAIN last.resource) \ {"id", "createdOn"} :
              f \in DOMAIN GotNow.val /\ GotNow.val[f] = last.resource[f]
        /\ \A f \in (DOMAIN GotBefore.val) \ (DOMAIN last.resource) :
              f \in DOMAIN GotNow.val /\ GotNow.val[f] = GotBefore.val[f]
        /\ GotNow.val.id = GotBefore.val.id
        /\ GotNow.val.createdOn = GotBefore.val.createdOn

\* the fields of an incoming entity that an update never carries over
Overridden == {"id", "createdOn", "lastModifiedOn", "PK", "SK"}

\* C2, amended: lastModifiedOn is the reading of the clock the update
\* stamped its write with, whatever p and e carry, PK and SK of p are not returned, every other field of p other than
\* id and createdOn has p's value, every field of e absent from p other than
\* lastModifiedOn keeps e's value, and id and createdOn are e's.
C2_MergePatch ==
    (UpdateDone /\ GotBefore.val.id = last.resource.id) =>
        /\ GotNow.kind = "value"
        /\ \A f \in (DOMAIN last.resource) \ Overridden :
              f \in DOMAIN GotNow.val /\ GotNow.val[f] = last.resource[f]
        /\ \A f \in (DOMAIN GotBefore.val) \ ((DOMAIN last.resource) \cup {"lastModifiedOn"}) :
              f \in DOMAIN GotNow.val /\ GotNow.val[f] = GotBefore.val[f]
        /\ GotNow.val.lastModifiedOn = last.stamped
        /\ GotNow.val.id = GotBefore.val.id
        /\ GotNow.val.createdOn = GotBefore.val.createdOn

\* an update carrying another createdOn has been merged onto a record that
\* has a field the update omits
C2_Witness ==
    /\ UpdateDone
    /\ GotBefore.val.id = last.resource.id
    /\ "createdOn" \in DOMAIN last.resource
    /\ last.resource.createdOn # GotBefore.val.createdOn
    /\ "description" \in (DOMAIN GotBefore.val) \ (DOMAIN last.resource)

\* C3: an update whose id has no stored record ends with the thrown
\* not-found literal, and the store is as it was before the call.
C3_UpdateMissing ==
    (last.op = "update" /\ LastKey \notin DOMAIN last.before) =>
        /\ last.result = Thrown(Literal404)
        /\ table = last.before

C3_Witness ==
    /\ last.op = "update"
    /\ last.result.kind = "throw"
    /\ table # <<>>
    /\ "id" \in DOMAIN last.resource

\* C5: delete never throws; on a key that is not stored, and in particular
\* when it repeats the delete completed just before it, it leaves the store
\* as it was.
C5_DeleteIdempotent ==
    last.op = "delete" =>
        /\ last.result.kind # "throw"
        /\ LastKey \notin DOMAIN table
        /\ LastKey \notin DOMAIN last.before => table = last.before
        /\ last.again => table = last.before

\* a second delete in a row of an id that was created
C5_Witness ==
    /\ last.op = "delete"
    /\ last.again
    /\ last.id \in issued
    /\ table # <<>>

\* C6: an id that was deleted and that no later create returned is absent:
\* get returns undefined for it, in the store as it is and in the last get.
C6_DeletedStaysAbsent ==
    /\ \A t \in tombs : getResult(table, t.id, t.pk, t.sk).kind = "undefined"
    /\ (last.op = "get" /\ [id |-> last.id, pk |-> last.pk, sk |-> last.sk] \in tombs)
          => last.result.kind = "undefined"

\* a get of an id that was created and then deleted, other records being
\* stored
C6_Witness ==
    /\ last.op = "get"
    /\ [id |-> last.id, pk |-> last.pk, sk |-> last.sk] \in tombs
    /\ last.id \in issued
    /\ table # <<>>

\* the pages of a list, concatenated
RECURSIVE Flatten(_)
Flatten(pages) == IF pages = <<>> THEN <<>> ELSE Head(pages) \o Flatten(Tail(pages))

\* the stored items the key condition selects, in index order
Selected(tbl, sk, pk) ==
    LET ks == SortKeys(Matching(tbl, sk, pk, Undefined))
    IN [i \in 1..Len(ks) |-> tbl[ks[i]]]

\* C7: list returns the concatenation of the pages the store answered, in
\* order, which is every selected record once; with nothing selected it
\* returns the empty sequence.
C7_Pagination ==
    last.op = "list" =>
        /\ last.result.kind = "value"
        /\ last.result.val = removeKeys(Flatten(last.pages))
        /\ Flatten(last.pages) = Selected(last.before, last.sk, last.pk)
        /\ Selected(last.before, last.sk, last.pk) = <<>> => last.result.val = <<>>

\* a list answered in three pages, the last of them empty
C7_Witness ==
    /\ last.op = "list"
    /\ Len(last.pages) >= 3
    /\ Len(last.result.val) >= 2

\* C8: no record returned by get or by list has a PK or an SK attribute.
C8_KeyHiding ==
    /\ (last.op = "get" /\ last.result.kind = "value")
          => (DOMAIN last.result.val) \cap {"PK", "SK"} = {}
    /\ last.op = "list"
          => \A i \in 1..Len(last.result.val) :
                (DOMAIN last.result.val[i]) \cap {"PK", "SK"} = {}

\* a list that returned an entity and a link record
C8_Witness ==
    /\ last.op = "list"
    /\ Len(last.result.val) >= 2
    /\ Key(ITEM, ITEM) \in DOMAIN table

\* C9: list(entityType) returns exactly the stored records with
\* SK = entityType whose PK begins with entityType followed by #.
C9_ListByTypePrefix ==
    (last.op = "list" /\ last.pk = last.sk) =>
        last.result.val = removeKeys(Selected(last.before, last.sk, last.sk \o Hash))

\* C18: every record written by create or update is stored under
\* PK = type#id and SK = type, id being its own id field, one that v4
\* generated; a create is stored under the id it returned and an update
\* under the key it found its record at, whatever id, PK or SK the payload
\* carried.
C18_KeyDerivation ==
    /\ \A k \in (DOMAIN table) \ LinkKeys :
          /\ table[k].id \in issued
          /\ \E type \in PkArgs : k = Key(KeyOf(type, table[k].id), type)
          /\ table[k].PK = k.PK
          /\ table[k].SK = k.SK
    /\ last.op = "create" =>
          /\ LastKey \in DOMAIN table
          /\ LastKey \notin DOMAIN last.before
          /\ table[LastKey].id = last.result.val
          /\ DOMAIN table = (DOMAIN last.before) \cup {LastKey}
    /\ UpdateDone =>
          /\ LastKey \in DOMAIN last.before
          /\ table[LastKey].id = last.before[LastKey].id
          /\ DOMAIN table = DOMAIN last.before

\* an update whose payload carried a PK and an SK of its own was written
\* while another record was stored
C18_Witness ==
    /\ UpdateDone
    /\ "PK" \in DOMAIN last.resource
    /\ last.resource.PK # LastKey.PK
    /\ Cardinality(DOMAIN table) >= 2

\* the last call is a create or an update that wrote its record
Wrote == last.op = "create" \/ UpdateDone

\* no record that stays stored has its lastModifiedOn lowered by this step
NeverLowered ==
    \A k \in (DOMAIN table) \cap (DOMAIN table') :
        table[k].lastModifiedOn <= table'[k].lastModifiedOn

\* a write leaves its record with the reading of the clock it stamped, taken
\* no later than the call completed, and every stored record has
\* createdOn <= lastModifiedOn
StampedOnWrite ==
    /\ \A k \in DOMAIN table : table[k].createdOn <= table[k].lastModifiedOn
    /\ Wrote =>
          /\ table[LastKey].lastModifiedOn = last.stamped
          /\ last.stamped <= last.at

\* the records stored when the last call began, other than the one under k,
\* are stored unchanged
OthersKept(k) ==
    \A j \in (DOMAIN last.before) \ {k} :
        j \in DOMAIN table /\ table[j] = last.before[j]

\* C20: get and list leave the store as it was; delete removes the record
\* under its key, if any, and nothing else; update changes nothing but the
\* record under its key and adds none; create adds one record under a key
\* that was not stored and changes no other.
C20_Frame ==
    /\ last.op \in {"get", "list"} => table = last.before
    /\ last.op = "delete" =>
          /\ DOMAIN table = (DOMAIN last.before) \ {LastKey}
          /\ OthersKept(LastKey)
    /\ last.op = "update" =>
          /\ DOMAIN table = DOMAIN last.before
          /\ OthersKept(LastKey)
    /\ last.op = "create" =>
          /\ LastKey \notin DOMAIN last.before
          /\ DOMAIN table = (DOMAIN last.before) \cup {LastKey}
          /\ OthersKept(LastKey)

\* a delete removed one record of three
C20_Witness ==
    /\ last.op = "delete"
    /\ LastKey \in DOMAIN last.before
    /\ Cardinality(DOMAIN table) = 2

-----------------------------------------------------------------------------
(* Properties of the service under concurrent requests *)

\* no call is in flight
Quiescent == \A p \in Procs : pc[p] = "idle"

\* C21: once the calls of concurrent requests have completed, a record whose
\* delete completed, and whose id no later create returned, is not stored:
\* an update never brings it back.
C21_NoResurrection ==
    Quiescent =>
        \A t \in tombs : Key(KeyOf(t.pk, t.id), t.sk) \notin DOMAIN table

\* C19: every create or update leaves its record with lastModifiedOn equal
\* to the time it stamped the write with, whatever the payload carried;
\* every stored record has createdOn <= lastModifiedOn; and, the clock never
\* going back, no write lowers the lastModifiedOn of a stored record,
\* however the calls of concurrent requests interleave.
C19_Timestamps == []StampedOnWrite /\ [][NeverLowered]_vars

\* the fields an update carries to be written
Carried(r) == (DOMAIN r) \ Overridden

\* request p completes an update in this step, the call completed just
\* before it being an update of the same record that carried other fields
SecondUpdate(p) ==
    /\ pc[p] = "update_put"
    /\ pc'[p] = "idle"
    /\ UpdateDone
    /\ LastKey = Key(frame[p].resource.PK, frame[p].resource.SK)
    /\ Carried(last.resource) \cap Carried(frame[p].payload) = {}

\* C22: when two updates of one stored record that carry disjoint fields
\* have both completed, however their steps interleaved, the stored record
\* holds the fields of both.
C22_NoLostUpdate ==
    [][ \A p \in Procs :
          SecondUpdate(p) =>
              /\ LastKey \in DOMAIN table'
              /\ \A f \in Carried(last.resource) :
                    /\ f \in DOMAIN table'[LastKey]
                    /\ table'[LastKey][f] = last.resource[f]
              /\ \A f \in Carried(frame[p].payload) :
                    /\ f \in DOMAIN table'[LastKey]
                    /\ table'[LastKey][f] = frame[p].payload[f] ]_vars

-----------------------------------------------------------------------------
(* Properties of the local server *)

\* the stored record the last update addressed was missing when it began
UpdateMissed ==
    /\ last.op = "update"
    /\ LastKey \notin DOMAIN last.before
    /\ last.result = Thrown(Literal404)

\* C4: a PUT /items/:id whose entity id matches no stored record is answered
\* with a 404-class status, not with the 500 of other failures.
C4_PutMissingIs404 ==
    (response.kind = "sent" /\ response.op = "update" /\ UpdateMissed) =>
        response.status \in 400..499

\* operations i and j of the registry resolve to the same verb and full path
SameRoute(ops, i, j) ==
    /\ ops[i].method.kind = "value"
    /\ ops[j].method.kind = "value"
    /\ toUpperCase(ops[i].method.val) = toUpperCase(ops[j].method.val)
    /\ fullPath(ops[i].basePath, ops[i].route) = fullPath(ops[j].basePath, ops[j].route)

\* the operations that resolve to the route of an earlier one
Duplicates(ops) == { j \in 1..Len(ops) : \E i \in 1..(j - 1) : SameRoute(ops, i, j) }

FirstDuplicate(ops) == CHOOSE j \in Duplicates(ops) : \A k \in Duplicates(ops) : j <= k

\* C10: with two operations of the registry on one verb and full path, the
\* server never listens and no request is dispatched; registration stops at
\* the first duplicate, and the process ends with an error naming its route.
C10_FailFast ==
    LET ops == Operations(controllers)
    IN Duplicates(ops) # {} =>
        /\ phase \in {"STARTING", "ABORTED"}
        /\ response = NoResponse
        /\ last = Idle
        /\ \A p \in Procs : pc[p] = "idle"
        /\ cursor <= FirstDuplicate(ops)
        /\ phase = "ABORTED" =>
              /\ cursor = FirstDuplicate(ops)
              /\ abortError =
                    Thrown(duplicateError(
                        routeText(toLowerCase(ops[cursor].method.val),
                                  fullPath(ops[cursor].basePath, ops[cursor].route))))

\* start-up aborted on a duplicate found after five handlers were registered
C10_Witness ==
    /\ phase = "ABORTED"
    /\ Len(app) = 5
    /\ Duplicates(Operations(controllers)) # {}

\* the last request was a GET /items/:id for an id with no stored record
GetMissed ==
    /\ response.kind = "sent"
    /\ response.op = "get"
    /\ last.op = "get"
    /\ response.id = last.id
    /\ LastKey \notin DOMAIN last.before

\* C12: a GET /items/:id for an id that has no stored record is answered
\* with an error status, not with a 200.
C12_GetMissingIsError ==
    GetMissed => response.status >= 400

\* the last request was answered after the store had rejected a command
StoreFailed ==
    /\ response.kind = "sent"
    /\ response.outcome.kind = "throw"
    /\ response.outcome.val.type = "Error"
    /\ response.outcome.val = StoreError

\* body is the message, or an object that carries it as its error
CarriesMessage(body, message) ==
    \/ body = JsText(message)
    \/ body = JsObject([error |-> JsText(message)])

\* C13: when the store fails while a handler serves a request, nothing is
\* retried (the call ended with the store's error and the store is as it
\* was) and the response written is 500-class and carries the store error's
\* message.
C13_StoreFailure ==
    StoreFailed =>
        /\ last.result = response.outcome
        /\ table = last.before
        /\ response.status \in 500..599
        /\ CarriesMessage(response.body, StoreError.message)

\* the last request was to a handler that rejected
Rejected ==
    /\ response.kind \in {"sent", "unanswered"}
    /\ response.op = "probe"
    /\ response.outcome.kind = "throw"

\* C14: whatever a handler rejects with, an Error, a bare string, null or
\* undefined, the request is answered with a 500-class response that carries
\* the message of the Error, and the server stays in LISTENING.
C14_CatchAll ==
    Rejected =>
        /\ response.kind = "sent"
        /\ response.status \in 500..599
        /\ response.outcome.val.type = "Error" =>
              response.body = JsObject([error |-> JsText(response.outcome.val.message)])
        /\ phase = "LISTENING"

\* the last request was answered for a result its handler returned
Returned == response.kind = "sent" /\ "result" \in DOMAIN response

\* body is a string that encodes a structured value
Encodes(body) == body.type = "string" /\ "json" \in DOMAIN body.text

\* C15: for every result a handler returns, the status written is its
\* statusCode, 200 when it has none, and the body written is the value its
\* string body encodes, the empty mapping being written only for an unset
\* body (or for a body that encodes the empty mapping).
C15_Dispatch ==
    Returned =>
        LET r == response.result
        IN /\ response.status = IF "statusCode" \in DOMAIN r THEN r.statusCode ELSE 200
           /\ Encodes(r.body) => response.body = r.body.text.json
           /\ r.body.type = "undefined" => response.body = JsObject(NoFields)
           /\ response.body = JsObject(NoFields) =>
                 \/ r.body.type = "undefined"
                 \/ Encodes(r.body) /\ r.body.text.json = JsObject(NoFields)

\* the last request was answered for an envelope the handler built
Built == Returned /\ "call" \in DOMAIN response /\ response.call # NoFields

\* C16: buildResponseBody(status, body, headerMode) returns an envelope with
\* statusCode status; with body itself when body is a string and its
\* serialization otherwise; with the three wildcard Access-Control-Allow-*
\* headers in the permissive mode, the given mapping when one is passed, none
\* otherwise; and the same envelope whenever the arguments are the same.
C16_Envelope ==
    Built =>
        LET c == response.call
            r == response.result
        IN /\ r.statusCode = c.status
           /\ c.body.type = "string" => r.body = c.body
           /\ c.body.type # "string" => r.body = JSONstringify(c.body)
           /\ c.headers.mode = "ALLOW" =>
                 /\ DOMAIN r.headers =
                       { "Access-Control-Allow-Headers", "Access-Control-Allow-Origin",
                         "Access-Control-Allow-Methods" }
                 /\ \A h \in DOMAIN r.headers : r.headers[h] = "*"
           /\ c.headers.mode = "map" => r.headers = c.headers.map
           /\ c.headers.mode = "undefined" => r.headers = NoFields
           /\ r = buildResponseBody(c.status, c.body, c.headers)

\* an envelope built in the permissive mode around a string body
C16_Witness ==
    /\ Built
    /\ response.call.headers = AllowCors
    /\ response.call.body.type = "string"
    /\ response.call.status = 404

\* the verb and path a registered handler answers
RouteOf(h) == [verb |-> toUpperCase(h.method), path |-> h.path]

\* the HTTP surface of the items resource
ItemsRoutes ==
    { [verb |-> <<"G", "E", "T">>, path |-> <<"/", "i", "t", "e", "m", "s">>],
      [verb |-> <<"G", "E", "T">>,
       path |-> <<"/", "i", "t", "e", "m", "s", "/", ":", "i", "d">>],
      [verb |-> <<"P", "O", "S", "T">>, path |-> <<"/", "i", "t", "e", "m", "s">>],
      [verb |-> <<"P", "U", "T">>,
       path |-> <<"/", "i", "t", "e", "m", "s", "/", ":", "i", "d">>],
      [verb |-> <<"D", "E", "L", "E", "T", "E">>,
       path |-> <<"/", "i", "t", "e", "m", "s", "/", ":", "i", "d">>] }

\* C17: start-up aborts only on two operations of one verb and full path;
\* with the shipped items handlers, in whatever order they were loaded, it
\* never aborts, and once listening the routing table holds exactly the five
\* items routes, one per handler unit.
C17_ShippedRoutes ==
    /\ phase = "ABORTED" => Duplicates(Operations(controllers)) # {}
    /\ controllers \in Shipped =>
          /\ phase # "ABORTED"
          /\ phase = "LISTENING" =>
                /\ Len(app) = 5
                /\ Len(routes) = 5
                /\ { RouteOf(app[k]) : k \in 1..Len(app) } = ItemsRoutes
                /\ \A unit \in ShippedUnits :
                      Cardinality({ k \in 1..Len(app) :
                                      app[k].controller = unit.name }) = 1

\* the shipped handlers, loaded in another order than that of their file
\* names, are being served: a request has been answered
C17_Witness ==
    /\ controllers \in Shipped
    /\ controllers[1] = ItemsUpdateController
    /\ controllers[5] = ItemsCreateController
    /\ phase = "LISTENING"
    /\ response.kind = "sent"

\* the last request was a PUT /items/:id, answered
PutAnswered ==
    /\ response.kind = "sent"
    /\ response.op = "update"
    /\ last.op = "update"
    /\ last.result = response.outcome

\* C23: a PUT /items/:id changes no record other than the one whose id is
\* the path parameter: every other record is stored as it was before the
\* request, and none is added, whatever id the body carries.
C23_PutTouchesPathId ==
    PutAnswered =>
        \A k \in ((DOMAIN table) \cup (DOMAIN last.before)) \
                 { Key(KeyOf(ITEM, response.id), ITEM) } :
            /\ k \in DOMAIN table
            /\ k \in DOMAIN last.before
            /\ table[k] = last.before[k]

\* a handler has run, or is running
Dispatched == response # NoResponse \/ last # Idle \/ ~Quiescent

\* C24: no request is dispatched to a handler before the setup has
\* completed: whenever a handler runs or has run, the setup is over, so the
\* table exists and is seeded in full.
C24_SetupBeforeDispatch ==
    Dispatched => setup.at = "DONE"

\* the segments among base and route that are set and not empty
Segments(base, route) ==
    (IF base.kind = "value" /\ Len(base.val) > 0 THEN <<base.val>> ELSE <<>>) \o
    (IF route.kind = "value" /\ Len(route.val) > 0 THEN <<route.val>> ELSE <<>>)

\* "/" followed by the segments joined by "/"
JoinedPath(segs) ==
    IF Len(segs) = 0 THEN Slash
    ELSE IF Len(segs) = 1 THEN Slash \o segs[1]
    ELSE Slash \o segs[1] \o Slash \o segs[2]

\* path begins with a slash that no second slash follows
OneLeadingSlash(path) ==
    /\ Len(path) >= 1
    /\ path[1] = "/"
    /\ Len(path) >= 2 => path[2] # "/"

\* C11: the path every operation is registered under is "/" followed by the
\* non-empty segments among its basePath and subPath joined by "/", and it
\* begins with exactly one slash.
C11_FullPath ==
    LET ops == Operations(controllers)
    IN \A k \in 1..Len(app) :
        \E i \in 1..Len(ops) :
            /\ ops[i].controller = app[k].controller
            /\ ops[i].methodName = app[k].methodName
            /\ app[k].path = JoinedPath(Segments(ops[i].basePath, ops[i].route))
            /\ OneLeadingSlash(app[k].path)

=============================================================================
